---- MODULE Spec2Model ----
(***************************************************************************)
(* Model of sigma/pipelines/uberagent/transformation.py: the three         *)
(* transformations of the uberAgent pipeline.                              *)
(*                                                                         *)
(*   FieldMappingTransformationLowercase.get_mapping                       *)
(*   FieldDetectionItemFailureTransformation.apply_detection_item          *)
(*   ReferencedFieldTransformation.apply                                   *)
(*                                                                         *)
(* Python strings are sequences of one-character strings, so that          *)
(* str.lower(), str.format() and str() are computed and not assumed.       *)
(***************************************************************************)
EXTENDS Integers, Sequences, FiniteSets, TLC

VARIABLES
    mapping,         \* FieldMappingTransformationLowercase.mapping (dataclass field)
    map_call,        \* the last get_mapping call: its argument and its return value
    message,         \* FieldDetectionItemFailureTransformation.message
    detection_item,  \* the SigmaDetectionItem handed to apply_detection_item
    item_outcome,    \* how the last apply_detection_item call ended
    field_mappings,  \* pipeline.field_mappings, an insertion-ordered table
    state,           \* pipeline.state
    apply_outcome,   \* how the last ReferencedFieldTransformation.apply call ended
    pipeline_set,    \* the base Transformation.apply has recorded the pipeline
    invocations      \* apply calls made since field_mappings was last set

vars == <<mapping, map_call, message, detection_item, item_outcome, field_mappings, state, apply_outcome, pipeline_set, invocations>>

mapper_vars == <<mapping, map_call>>

failure_vars == <<message, detection_item, item_outcome>>

collector_vars == <<field_mappings, state, apply_outcome, pipeline_set, invocations>>

----------------------------------------------------------------------------
(* Bounds of the explored inputs.                                          *)

MaxFieldLen == 2

MaxKeys == 2

MaxTemplateLen == 4

MaxTableLen == 2

MaxElems == 2

MaxCalls == 2

\* All sequences over S of length 0..n.
SeqsUpTo(S, n) == UNION {[1..k -> S] : k \in 0..n}

----------------------------------------------------------------------------
(* FieldMappingTransformationLowercase                                     *)

FieldChars == {"a", "A", "_"}

\* str.lower() on one character of FieldChars.
LowerChar(c) == IF c = "A" THEN "a" ELSE c

\* str.lower(): every character lowered, length and order kept.
Lower(s) == [i \in 1..Len(s) |-> LowerChar(s[i])]

FieldNames == SeqsUpTo(FieldChars, MaxFieldLen)

\* The keys a lowercase-keyed table can hold: the names lower() leaves alone.
LowerKeys == {k \in FieldNames : \A i \in 1..Len(k) : k[i] # "A"}

\* A mapping target: a single field name (str) or a list of field names.
Targets == {[kind |-> "str", names |-> <<"x">>], [kind |-> "list", names |-> <<"x", "y">>]}

\* The return value None.
None == [kind |-> "None", names |-> <<>>]

MappingTables == UNION {[D -> Targets] : D \in {K \in SUBSET LowerKeys : Cardinality(K) <= MaxKeys}}

\* The inherited FieldMappingTransformation.get_mapping: a lookup of the key as given.
base_get_mapping(T, field) == IF field \in DOMAIN T THEN T[field] ELSE None

\* A lookup that forgets to lower the field name.
get_mapping_exact(T, field) == base_get_mapping(T, field)

\* FieldMappingTransformationLowercase.get_mapping
get_mapping(T, field) == base_get_mapping(T, Lower(field))

NoCall == [done |-> FALSE, field |-> <<>>, result |-> None]

\* One call of get_mapping(field) by the framework.
GetMapping ==
    /\ \E f \in FieldNames : map_call' = [done |-> TRUE, field |-> f, result |-> get_mapping(mapping, f)]
    /\ UNCHANGED <<mapping, failure_vars, collector_vars>>

----------------------------------------------------------------------------
(* FieldDetectionItemFailureTransformation                                 *)

TemplateChars == {"a", "{", "}", "0", "1", "x"}

Templates == SeqsUpTo(TemplateChars, MaxTemplateLen)

Digits == {"0", "1"}

DigitValue(c) == IF c = "1" THEN 1 ELSE 0

\* int() of a non-empty run of digits.
RECURSIVE DecimalValue(_)
DecimalValue(ds) == IF ds = <<>> THEN 0 ELSE 10 * DecimalValue(SubSeq(ds, 1, Len(ds) - 1)) + DigitValue(ds[Len(ds)])

\* SigmaDetectionItem.field is Optional[str].
FieldValues == {[isNone |-> TRUE, chars |-> <<>>], [isNone |-> FALSE, chars |-> <<"f">>], [isNone |-> FALSE, chars |-> <<"{", "}">>]}

\* str() of the positional argument, as format() renders it with an empty format spec.
PyStr(arg) == IF arg.isNone THEN <<"N", "o", "n", "e">> ELSE arg.chars

Raised(exc) == [exc |-> exc, text |-> <<>>]

\* The end of the replacement field that opens before position i: the index of
\* its closing brace, or 0 when a "{" or the end of the string comes first.
RECURSIVE FieldEnd(_, _)
FieldEnd(m, i) ==
    IF i > Len(m) THEN 0
    ELSE IF m[i] = "}" THEN i
    ELSE IF m[i] = "{" THEN 0
    ELSE FieldEnd(m, i + 1)

\* str.format with one positional argument, from position i on: mode is the
\* numbering state (init, auto, manual), used the count of automatic fields.
RECURSIVE FormatFrom(_, _, _, _, _, _)
FormatFrom(m, i, arg, mode, used, out) ==
    IF i > Len(m) THEN [exc |-> "none", text |-> out]
    ELSE IF m[i] = "}" THEN
        IF i < Len(m) /\ m[i + 1] = "}" THEN FormatFrom(m, i + 2, arg, mode, used, Append(out, "}"))
        ELSE Raised("ValueError")
    ELSE IF m[i] = "{" THEN
        IF i = Len(m) THEN Raised("ValueError")
        ELSE IF m[i + 1] = "{" THEN FormatFrom(m, i + 2, arg, mode, used, Append(out, "{"))
        ELSE LET close == FieldEnd(m, i + 1)
                 name == SubSeq(m, i + 1, close - 1)
                 numeric == name # <<>> /\ \A j \in 1..Len(name) : name[j] \in Digits
             IN IF close = 0 THEN Raised("ValueError")
                ELSE IF name = <<>> THEN
                    IF mode = "manual" THEN Raised("ValueError")
                    ELSE IF used >= 1 THEN Raised("IndexError")
                    ELSE FormatFrom(m, close + 1, arg, "auto", used + 1, out \o PyStr(arg))
                ELSE IF numeric THEN
                    IF mode = "auto" THEN Raised("ValueError")
                    ELSE IF DecimalValue(name) >= 1 THEN Raised("IndexError")
                    ELSE FormatFrom(m, close + 1, arg, "manual", used, out \o PyStr(arg))
                ELSE Raised("KeyError")
    ELSE FormatFrom(m, i + 1, arg, mode, used, Append(out, m[i]))

\* Formatting in the style of the % operator: an argument no placeholder
\* consumes is an error.
FormatStrict(m, arg) ==
    LET r == FormatFrom(m, 1, arg, "init", 0, <<>>)
    IN IF r.exc = "none" /\ \A i \in 1..Len(m) : m[i] # "{" THEN Raised("TypeError") ELSE r

\* message.format(detection_item.field)
Format(m, arg) == FormatFrom(m, 1, arg, "init", 0, <<>>)

\* Raising the template as it stands, the field never formatted in.
failure_unformatted(m, item) == [exc |-> "SigmaTransformationError", text |-> m]

\* The outcome of apply_detection_item: the exception that leaves it.
failure_outcome(m, item) ==
    LET r == Format(m, item.field)
    IN IF r.exc = "none" THEN [exc |-> "SigmaTransformationError", text |-> r.text] ELSE r

DetectionItems == [field : FieldValues, value : {"v"}]

NotApplied == [exc |-> "not applied", text |-> <<>>]

\* FieldDetectionItemFailureTransformation.apply_detection_item(detection_item)
ApplyDetectionItem ==
    /\ item_outcome' = failure_outcome(message, detection_item)
    /\ UNCHANGED <<message, detection_item, mapper_vars, collector_vars>>

----------------------------------------------------------------------------
(* ReferencedFieldTransformation                                           *)

KeyNames == <<"src", "dst", "usr", "pid", "cmd", "img">>

Keys == {KeyNames[i] : i \in 1..MaxTableLen}

StrA == [t |-> "str", s |-> <<"a">>, n |-> 0]

Int7 == [t |-> "int", s |-> <<>>, n |-> 7]

\* The elements a mapping value can hold: a target field name, or a non-string.
Elems == {StrA, Int7}

DigitChar(d) == <<"0", "1", "2", "3", "4", "5", "6", "7", "8", "9">>[d + 1]

\* str() of a non-negative int.
RECURSIVE IntStr(_)
IntStr(n) == IF n < 10 THEN <<DigitChar(n)>> ELSE Append(IntStr(n \div 10), DigitChar(n % 10))

\* str(element)
Str(e) == IF e.t = "str" THEN e.s ELSE IntStr(e.n)

\* The values of field_mappings: a set of elements, or an object of another type.
SetValues == {[tag |-> "set", items |-> S, seq |-> <<>>] : S \in {X \in SUBSET Elems : Cardinality(X) <= MaxElems}}

ListValues == {[tag |-> "list", items |-> {}, seq |-> q] : q \in SeqsUpTo({StrA}, MaxElems)}

OtherValues == {[tag |-> "frozenset", items |-> {StrA}, seq |-> <<>>], [tag |-> "str", items |-> {}, seq |-> <<StrA>>]}

Values == SetValues \cup ListValues \cup OtherValues

\* isinstance(value, set)
IsInstanceSet(value) == value.tag = "set"

\* type(value).__name__
TypeName(value) == value.tag

\* len(value)
PyLen(value) == IF value.tag \in {"set", "frozenset"} THEN Cardinality(value.items) ELSE Len(value.seq)

\* list(value)[0] of a one-element set
FirstOf(value) == CHOOSE e \in value.items : TRUE

Absent == [present |-> FALSE, list |-> <<>>]

Holding(l) == [present |-> TRUE, list |-> l]

Completed(n, fields) == [exc |-> "none", key |-> "", kind |-> "", count |-> 0, examined |-> n, fields |-> fields]

TypeErrorAt(i, key, value, fields) == [exc |-> "TypeError", key |-> key, kind |-> TypeName(value), count |-> 0, examined |-> i, fields |-> fields]

ValueErrorAt(i, key, value, fields) == [exc |-> "ValueError", key |-> key, kind |-> "", count |-> PyLen(value), examined |-> i, fields |-> fields]

IndexErrorAt(i, key, fields) == [exc |-> "IndexError", key |-> key, kind |-> "", count |-> 0, examined |-> i, fields |-> fields]

\* The loop with the two checks in the other order.
RECURSIVE collect_len_first(_, _, _)
collect_len_first(table, i, fields) ==
    IF i > Len(table) THEN Completed(Len(table), fields)
    ELSE IF PyLen(table[i].value) # 1 THEN ValueErrorAt(i, table[i].key, table[i].value, fields)
    ELSE IF ~IsInstanceSet(table[i].value) THEN TypeErrorAt(i, table[i].key, table[i].value, fields)
    ELSE collect_len_first(table, i + 1, Append(fields, Str(FirstOf(table[i].value))))

\* The loop with the cardinality test written len(value) > 1.
RECURSIVE collect_gt_one(_, _, _)
collect_gt_one(table, i, fields) ==
    IF i > Len(table) THEN Completed(Len(table), fields)
    ELSE IF ~IsInstanceSet(table[i].value) THEN TypeErrorAt(i, table[i].key, table[i].value, fields)
    ELSE IF PyLen(table[i].value) > 1 THEN ValueErrorAt(i, table[i].key, table[i].value, fields)
    ELSE IF PyLen(table[i].value) = 0 THEN IndexErrorAt(i, table[i].key, fields)
    ELSE collect_gt_one(table, i + 1, Append(fields, Str(FirstOf(table[i].value))))

\* The loop with fields.insert(0, value_str) for fields.append(value_str).
RECURSIVE collect_prepend(_, _, _)
collect_prepend(table, i, fields) ==
    IF i > Len(table) THEN Completed(Len(table), fields)
    ELSE IF ~IsInstanceSet(table[i].value) THEN TypeErrorAt(i, table[i].key, table[i].value, fields)
    ELSE IF PyLen(table[i].value) # 1 THEN ValueErrorAt(i, table[i].key, table[i].value, fields)
    ELSE collect_prepend(table, i + 1, <<Str(FirstOf(table[i].value))>> \o fields)

\* The loop of apply over field_mappings.keys(), from entry i on.
RECURSIVE collect(_, _, _)
collect(table, i, fields) ==
    IF i > Len(table) THEN Completed(Len(table), fields)
    ELSE IF ~IsInstanceSet(table[i].value) THEN TypeErrorAt(i, table[i].key, table[i].value, fields)
    ELSE IF PyLen(table[i].value) # 1 THEN ValueErrorAt(i, table[i].key, table[i].value, fields)
    ELSE collect(table, i + 1, Append(fields, Str(FirstOf(table[i].value))))

\* What leaves apply: the exception (or none), without the local list.
OutcomeOf(r) == [exc |-> r.exc, key |-> r.key, kind |-> r.kind, count |-> r.count, examined |-> r.examined]

\* apply with fields = pipeline.state.get("Fields", []) for fields = [].
apply_run_append(table, st) ==
    LET r == collect(table, 1, st.Fields.list)
    IN [outcome |-> OutcomeOf(r), field_mappings |-> table, state |-> IF r.exc = "none" THEN [st EXCEPT !.Fields = Holding(r.fields)] ELSE st]

\* apply with the write to state["Fields"] made on the failing path too.
apply_run_partial(table, st) ==
    LET r == collect(table, 1, <<>>)
    IN [outcome |-> OutcomeOf(r), field_mappings |-> table, state |-> [st EXCEPT !.Fields = Holding(r.fields)]]

\* apply with pipeline.state = {"Fields": fields} for the write of one slot.
apply_run_reset(table, st) ==
    LET r == collect(table, 1, <<>>)
    IN [outcome |-> OutcomeOf(r), field_mappings |-> table, state |-> IF r.exc = "none" THEN [Fields |-> Holding(r.fields), Other |-> Absent] ELSE st]

\* ReferencedFieldTransformation.apply, after the base apply: the loop, then
\* the one write to state["Fields"] when the loop has ended normally.
apply_run(table, st) ==
    LET r == collect(table, 1, <<>>)
    IN [outcome |-> OutcomeOf(r), field_mappings |-> table, state |-> IF r.exc = "none" THEN [st EXCEPT !.Fields = Holding(r.fields)] ELSE st]

NotRun == [exc |-> "not run", key |-> "", kind |-> "", count |-> 0, examined |-> 0]

\* The pipeline starts on the next rule with an empty table.
ClearMappings ==
    /\ field_mappings' = <<>>
    /\ apply_outcome' = NotRun
    /\ invocations' = 0
    /\ UNCHANGED <<state, pipeline_set, mapper_vars, failure_vars>>

\* An earlier transformation records field_mappings[key] = value for a new key.
AddMapping ==
    /\ Len(field_mappings) < MaxTableLen
    /\ \E k \in Keys \ {field_mappings[i].key : i \in 1..Len(field_mappings)} : \E v \in Values : field_mappings' = Append(field_mappings, [key |-> k, value |-> v])
    /\ apply_outcome' = NotRun
    /\ invocations' = 0
    /\ UNCHANGED <<state, pipeline_set, mapper_vars, failure_vars>>

\* ReferencedFieldTransformation.apply(pipeline, rule)
Apply ==
    /\ invocations < MaxCalls
    /\ pipeline_set' = TRUE
    /\ LET r == apply_run(field_mappings, state)
       IN /\ apply_outcome' = r.outcome
          /\ field_mappings' = r.field_mappings
          /\ state' = r.state
    /\ invocations' = invocations + 1
    /\ UNCHANGED <<mapper_vars, failure_vars>>

----------------------------------------------------------------------------
(* Specifications: one per transformation. The variables of the other two  *)
(* transformations keep the values they have before any use.               *)

NoItem == [field |-> [isNone |-> TRUE, chars |-> <<>>], value |-> "v"]

EmptyState == [Fields |-> Absent, Other |-> Holding(<<"v">>)]

\* A FieldMappingTransformationLowercase constructed with a lowercase-keyed table.
InitMapper ==
    /\ mapping \in MappingTables
    /\ map_call = NoCall
    /\ message = <<>>
    /\ detection_item = NoItem
    /\ item_outcome = NotApplied
    /\ field_mappings = <<>>
    /\ state = EmptyState
    /\ apply_outcome = NotRun
    /\ pipeline_set = FALSE
    /\ invocations = 0

NextMapper == GetMapping

SpecMapper == InitMapper /\ [][NextMapper]_vars

\* A FieldDetectionItemFailureTransformation constructed with a template,
\* and the detection item it will be applied to.
InitFailure ==
    /\ mapping = <<>>
    /\ map_call = NoCall
    /\ message \in Templates
    /\ detection_item \in DetectionItems
    /\ item_outcome = NotApplied
    /\ field_mappings = <<>>
    /\ state = EmptyState
    /\ apply_outcome = NotRun
    /\ pipeline_set = FALSE
    /\ invocations = 0

NextFailure == ApplyDetectionItem

SpecFailure == InitFailure /\ [][NextFailure]_vars

\* A ReferencedFieldTransformation and a fresh pipeline: no field mapping
\* tracked, no "Fields" slot in the state.
InitCollector ==
    /\ mapping = <<>>
    /\ map_call = NoCall
    /\ message = <<>>
    /\ detection_item = NoItem
    /\ item_outcome = NotApplied
    /\ field_mappings = <<>>
    /\ state = EmptyState
    /\ apply_outcome = NotRun
    /\ pipeline_set = FALSE
    /\ invocations = 0

NextCollector == ClearMappings \/ AddMapping \/ Apply

SpecCollector == InitCollector /\ [][NextCollector]_vars

----------------------------------------------------------------------------
(* Properties of FieldMappingTransformationLowercase                       *)

\* f and g are the same name up to the case of their letters.
DifferOnlyInCase(f, g) == Len(f) = Len(g) /\ \A i \in 1..Len(f) : f[i] = g[i] \/ {f[i], g[i]} = {"a", "A"}

\* C1: with a table keyed by lowercase strings, get_mapping(f) returns what
\* the table holds under f.lower() (None when f.lower() is no key), and every
\* name that differs from f only in case gets the same result.
C1_LowercaseLookup ==
    map_call.done =>
        /\ map_call.result = (IF Lower(map_call.field) \in DOMAIN mapping THEN mapping[Lower(map_call.field)] ELSE None)
        /\ \A g \in FieldNames : DifferOnlyInCase(map_call.field, g) => get_mapping(mapping, g) = map_call.result

\* An upper-case name has been looked up and found under its lowercase key.
C1_Witness ==
    /\ map_call.done
    /\ map_call.field = <<"A", "_">>
    /\ <<"a", "_">> \in DOMAIN mapping
    /\ map_call.result = mapping[<<"a", "_">>]
    /\ map_call.result.kind = "list"

----------------------------------------------------------------------------
(* Properties of FieldDetectionItemFailureTransformation                   *)

Braces == {"{", "}"}

\* m is plain text around one placeholder, "{}" (w = 2) or "{0}" (w = 3), at i.
OnePlaceholderAt(m, i, w) ==
    /\ i + w - 1 <= Len(m)
    /\ SubSeq(m, i, i + w - 1) = (IF w = 2 THEN <<"{", "}">> ELSE <<"{", "0", "}">>)
    /\ \A j \in 1..Len(m) : (j < i \/ j >= i + w) => m[j] \notin Braces

\* The text of m with the field text in the place of the placeholder at i.
Substituted(m, i, w, field) == SubSeq(m, 1, i - 1) \o (IF field.isNone THEN <<"N", "o", "n", "e">> ELSE field.chars) \o SubSeq(m, i + w, Len(m))

\* C2: whenever the template holds one placeholder, apply_detection_item ends
\* in a SigmaTransformationError whose message is the template formatted with
\* the item's field; it never returns normally, and the detection item and
\* the pipeline are left as they were.
C2_AlwaysFails ==
    [][/\ item_outcome'.exc # "returned"
       /\ \A i \in 1..Len(message) : \A w \in {2, 3} :
            OnePlaceholderAt(message, i, w) =>
                item_outcome' = [exc |-> "SigmaTransformationError", text |-> Substituted(message, i, w, detection_item.field)]
       /\ detection_item' = detection_item
       /\ field_mappings' = field_mappings
       /\ state' = state]_vars

\* A template with one placeholder has been applied to an item whose field is "{}".
C2_Witness ==
    /\ message = <<"a", "{", "0", "}">>
    /\ detection_item.field.chars = <<"{", "}">>
    /\ item_outcome = [exc |-> "SigmaTransformationError", text |-> <<"a", "{", "}">>]

\* m holds no "{}" and no "{0}".
LacksPlaceholder(m) == \A i \in 1..Len(m) : \A w \in {2, 3} : ~(i + w - 1 <= Len(m) /\ SubSeq(m, i, i + w - 1) = (IF w = 2 THEN <<"{", "}">> ELSE <<"{", "0", "}">>))

\* Every brace of m, from position i on, is one of a doubled pair.
RECURSIVE PlainFrom(_, _)
PlainFrom(m, i) ==
    IF i > Len(m) THEN TRUE
    ELSE IF m[i] \in Braces THEN i < Len(m) /\ m[i + 1] = m[i] /\ PlainFrom(m, i + 2)
    ELSE PlainFrom(m, i + 1)

\* The text of m from position i on, a doubled brace written once.
RECURSIVE TemplateText(_, _)
TemplateText(m, i) ==
    IF i > Len(m) THEN <<>>
    ELSE IF m[i] \in Braces /\ i < Len(m) /\ m[i + 1] = m[i] THEN <<m[i]>> \o TemplateText(m, i + 2)
    ELSE <<m[i]>> \o TemplateText(m, i + 1)

\* The braces of m, from position i on, are doubled pairs or enclose a
\* replacement field: m is a format string that str.format can parse.
RECURSIVE WellBracedFrom(_, _)
WellBracedFrom(m, i) ==
    IF i > Len(m) THEN TRUE
    ELSE IF m[i] = "}" THEN i < Len(m) /\ m[i + 1] = "}" /\ WellBracedFrom(m, i + 2)
    ELSE IF m[i] = "{" THEN
        /\ i < Len(m)
        /\ IF m[i + 1] = "{" THEN WellBracedFrom(m, i + 2)
           ELSE FieldEnd(m, i + 1) # 0 /\ WellBracedFrom(m, FieldEnd(m, i + 1) + 1)
    ELSE WellBracedFrom(m, i + 1)

----------------------------------------------------------------------------
(* Properties of ReferencedFieldTransformation                             *)

Ran == apply_outcome.exc # "not run"

Failed == apply_outcome.exc \in {"TypeError", "ValueError"}

NotASet(e) == e.value.tag # "set"

BadCardinality(e) == e.value.tag = "set" /\ Cardinality(e.value.items) # 1

Offending(e) == NotASet(e) \/ BadCardinality(e)

\* The earliest entry of t that violates the required shape.
FirstOffending(t) == CHOOSE i \in 1..Len(t) : Offending(t[i]) /\ \A j \in 1..(i - 1) : ~Offending(t[j])

\* The string form of an element: a string is its own, the int 7 is "7".
StringForm(e) == IF e.t = "int" /\ e.n = 7 THEN <<"7">> ELSE e.s

\* slot holds the full list of t: one entry per key, in order, each the
\* string form of the sole element of the key's set.
CompleteFor(slot, t) ==
    /\ slot.present
    /\ Len(slot.list) = Len(t)
    /\ \A i \in 1..Len(t) : \E e \in t[i].value.items : t[i].value.items = {e} /\ slot.list[i] = StringForm(e)

\* C3: on a table whose values are all one-element sets, apply ends normally
\* with state["Fields"] the list of the sole elements' string forms in table
\* order, whatever the slot held before.
C3_CollectsInOrder ==
    (Ran /\ \A i \in 1..Len(field_mappings) : ~Offending(field_mappings[i])) =>
        apply_outcome.exc = "none" /\ CompleteFor(state.Fields, field_mappings)

\* A second run over a two-key table, the slot holding the first run's list
\* before it: an int element first, a string element second.
C3_Witness ==
    /\ apply_outcome.exc = "none"
    /\ invocations = 2
    /\ Len(field_mappings) = 2
    /\ field_mappings[1].value = [tag |-> "set", items |-> {Int7}, seq |-> <<>>]
    /\ field_mappings[2].value = [tag |-> "set", items |-> {StrA}, seq |-> <<>>]
    /\ state.Fields = Holding(<< <<"7">>, <<"a">> >>)

C6_NoPartialList ==
    [][state'.Fields # state.Fields => CompleteFor(state'.Fields, field_mappings)]_vars

\* apply has failed at the second key, the first one valid, over a slot that
\* holds the one-entry list of an earlier table.
C6_Witness ==
    /\ Failed
    /\ apply_outcome.examined = 2
    /\ ~Offending(field_mappings[1])
    /\ state.Fields.present
    /\ Len(state.Fields.list) = 1
    /\ state.Fields.list[1] # StringForm(FirstOf(field_mappings[1].value))

\* C7: a run of apply that follows a successful run on the same, unchanged
\* table succeeds too and leaves state["Fields"] as the first run left it.
C7_Idempotent ==
    [][(invocations >= 1 /\ apply_outcome.exc = "none" /\ invocations' = invocations + 1) =>
        (apply_outcome'.exc = "none" /\ state'.Fields = state.Fields /\ CompleteFor(state'.Fields, field_mappings'))]_vars

\* The second of two successive runs on a one-key table has ended normally.
C7_Witness ==
    /\ invocations = 2
    /\ apply_outcome.exc = "none"
    /\ Len(field_mappings) = 1
    /\ Len(state.Fields.list) = 1

\* C9: apply fails at the earliest offending entry of the table: the error
\* names that key, no later entry has been examined, and within the entry the
\* type check comes first, so that a non-set value gives the TypeError
\* whatever its length and only a set gives the ValueError.
C9_FailsAtFirstOffending ==
    (Ran /\ \E i \in 1..Len(field_mappings) : Offending(field_mappings[i])) =>
        LET f == FirstOffending(field_mappings)
        IN /\ Failed
           /\ apply_outcome.key = field_mappings[f].key
           /\ apply_outcome.examined = f
           /\ NotASet(field_mappings[f]) <=> apply_outcome.exc = "TypeError"
           /\ BadCardinality(field_mappings[f]) <=> apply_outcome.exc = "ValueError"

\* Both keys offend, the first with an empty list: the TypeError of the first.
C9_Witness ==
    /\ apply_outcome.exc = "TypeError"
    /\ apply_outcome.examined = 1
    /\ Len(field_mappings) = 2
    /\ field_mappings[1].value = [tag |-> "list", items |-> {}, seq |-> <<>>]
    /\ BadCardinality(field_mappings[2])
    /\ apply_outcome.key = field_mappings[1].key

\* C10: a run of apply changes nothing but state["Fields"]: the table and the
\* other slots of the state are as before, and a failed run leaves
\* state["Fields"] as before too.
C10_OnlyFieldsWritten ==
    [][invocations' = invocations + 1 =>
        /\ field_mappings' = field_mappings
        /\ state'.Other = state.Other
        /\ DOMAIN state' = DOMAIN state
        /\ (apply_outcome'.exc # "none" => state'.Fields = state.Fields)]_vars

\* A failed run has left the list of an earlier table, and the other slot, in place.
C10_Witness ==
    /\ Failed
    /\ invocations = 1
    /\ state.Fields.present
    /\ Len(state.Fields.list) = 2
    /\ Len(field_mappings) = 1
    /\ state.Other = Holding(<<"v">>)

====
